---- MODULE Spec2Model ----
(***************************************************************************)
(* State-sync mediator of the admin control panel (src/js/admin.js):       *)
(* AdminApp keeps a local deck name and page number, mirrors them to the   *)
(* shared "presenter/state" record with updateDoc, and applies snapshots   *)
(* of that record in _onSnapshot.                                          *)
(***************************************************************************)
EXTENDS Integers, Sequences, FiniteSets

VARIABLES
    curDeck,        \* this._currentDeck
    curPage,        \* this._currentPageNumber (a JavaScript value)
    pagesCountSpan, \* this.pagesCountSpan.textContent
    viewerDeck,     \* the deck the viewer has loaded
    pagesCount,     \* this.viewer.pagesCount
    viewerPage,     \* the value last assigned to this.viewer.currentPageNumber
    user,           \* this.auth.currentUser != null
    remote,         \* the presenter/state record in the document store
    writes,         \* updateDoc calls in flight, oldest first
    notifs,         \* snapshots waiting to be delivered to _onSnapshot, oldest first
    loads,          \* _updateDeck calls in flight: the deck each one loads
    paged,          \* for each load in flight, whether its "pagesinit" has fired
    inits,          \* per deck, the resolved loads whose "pagesinit" is still to fire
    eff,            \* what the handler that ran last was given and what it called
    cv, cmin, cmax, cres  \* arguments and result of a direct call of clamp

vars == <<curDeck, curPage, pagesCountSpan, viewerDeck, pagesCount, viewerPage,
          user, remote, writes, notifs, loads, paged, inits, eff,
          cv, cmin, cmax, cres>>

appVars == <<curDeck, curPage, pagesCountSpan, viewerDeck, pagesCount, viewerPage,
             user, remote, writes, notifs, loads, paged, inits, eff>>

\* what the handlers of the mediator never assign
envVars == <<user, remote>>

clampVars == <<cv, cmin, cmax, cres>>

----------------------------------------------------------------------------
(* Bounds of the model *)

\* updateDoc calls, snapshots, deck loads and "pagesinit" events pending at once
MaxPending == 2
ClampRange == 3

----------------------------------------------------------------------------
(* JavaScript values *)

Num(n) == [k |-> "int", n |-> n]
NaN == [k |-> "nan", n |-> 0]
Undefined == [k |-> "undef", n |-> 0]

\* a != b of JavaScript on numbers, NaN and undefined
JsNeq(a, b) == IF a.k = "nan" \/ b.k = "nan" THEN TRUE ELSE a # b

\* Number.isInteger
IsInteger(a) == a.k = "int"

\* a + delta with delta a number
JsAdd(a, delta) == IF a.k = "int" THEN Num(a.n + delta) ELSE NaN

MathMax(a, b) ==
    IF a.k # "int" \/ b.k # "int" THEN NaN
    ELSE IF a.n >= b.n THEN a ELSE b

MathMin(a, b) ==
    IF a.k # "int" \/ b.k # "int" THEN NaN
    ELSE IF a.n <= b.n THEN a ELSE b

\* clamp with the two bounds applied in the other order
clampMaxOfMin(value, min, max) == MathMax(MathMin(value, max), min)

clamp(value, min, max) == MathMin(MathMax(value, min), max)

----------------------------------------------------------------------------
(* parseInt on strings, a string being the sequence of its UTF-16 code units *)

\* "0" .. "9"
Digits == 48..57

DigitValue(c) == c - 48

DigitChar(d) == 48 + d

\* the code units parseInt skips at the start, WhiteSpace and LineTerminator:
\* tab, line feed, vertical tab, form feed, carriage return, space, U+00A0,
\* U+1680, U+2000 .. U+200A, U+2028, U+2029, U+202F, U+205F, U+3000, U+FEFF
WhiteSpace ==
    (9..13) \cup {32, 160, 5760} \cup (8192..8202)
            \cup {8232, 8233, 8239, 8287, 12288, 65279}

\* "a" .. "f" and "A" .. "F"
HexLetters == (97..102) \cup (65..70)

\* the digits of radix 16
HexDigits == Digits \cup HexLetters

HexDigitValue(c) ==
    CASE c \in Digits -> DigitValue(c)
      [] c \in 97..102 -> c - 87
      [] c \in 65..70 -> c - 55

RECURSIVE SkipWhite(_)
SkipWhite(s) ==
    IF s # <<>> /\ Head(s) \in WhiteSpace THEN SkipWhite(Tail(s)) ELSE s

\* the longest prefix of s made of the characters of set
RECURSIVE DigitPrefix(_, _)
DigitPrefix(s, set) ==
    IF s # <<>> /\ Head(s) \in set
    THEN <<Head(s)>> \o DigitPrefix(Tail(s), set)
    ELSE <<>>

\* the value of the digits d in the given radix
RECURSIVE DigitsValue(_, _)
DigitsValue(d, radix) ==
    IF d = <<>> THEN 0
    ELSE radix * DigitsValue(SubSeq(d, 1, Len(d) - 1), radix) + HexDigitValue(d[Len(d)])

\* parseInt(s) without a radix: white space, a sign, then "0x"/"0X" and
\* hexadecimal digits or else decimal digits; NaN when there is no digit
ParseInt(s) ==
    LET t == SkipWhite(s)
        \* "+", "-"
        signed == t # <<>> /\ (Head(t) = 43 \/ Head(t) = 45)
        neg == t # <<>> /\ Head(t) = 45
        body == IF signed THEN Tail(t) ELSE t
        \* "0x", "0X"
        hex == Len(body) >= 2 /\ body[1] = 48 /\ (body[2] = 120 \/ body[2] = 88)
        radix == IF hex THEN 16 ELSE 10
        d == IF hex
             THEN DigitPrefix(SubSeq(body, 3, Len(body)), HexDigits)
             ELSE DigitPrefix(body, Digits)
    IN IF d = <<>> THEN NaN
       ELSE Num(IF neg THEN 0 - DigitsValue(d, radix) ELSE DigitsValue(d, radix))

RECURSIVE NatToString(_)
NatToString(n) ==
    IF n < 10 THEN <<DigitChar(n)>>
    ELSE NatToString(n \div 10) \o <<DigitChar(n % 10)>>

\* String(n) for an integer n, as parseInt applies it to a number argument
NumberToString(n) == IF n < 0 THEN <<45>> \o NatToString(0 - n) ELSE NatToString(n)

----------------------------------------------------------------------------
(* The environment: decks, their page counts, inputs *)

Decks == {"A", "B"}

NoDeck == "undefined"

\* the page count the viewer reports once it shows deck d
PagesOf(d) == IF d = "A" THEN 1 ELSE 2

\* raw strings typed into the page-number field
RawInputs ==
    { <<97, 98, 99>>,       \* "abc"
      <<50, 46, 53>>,       \* "2.5"
      <<48>> }              \* "0"

\* page numbers other clients write to the record
RemotePages == {1, 2}

Deltas == {-1, 1}

\* how a prev/next activation reaches _onPageChangeButton
Triggers == {"click", "keydown"}

----------------------------------------------------------------------------
(* Observation of the handler that ran last: its name, its input, and how   *)
(* many times it called updateDoc, the viewer's page setter and _updateDeck. *)

Effect(op, raw, delta, wrote, setPage, load) ==
    [op |-> op, raw |-> raw, delta |-> delta,
     wrote |-> wrote, setPage |-> setPage, load |-> load]

\* the last step was none of the handlers the properties name
NoEffect == Effect("none", <<>>, 0, 0, 0, 0)

\* an updateDoc call: a partial record naming the one field it merges
\* a page write that carries the deck name as well
PageWriteWithDeck(n) == [field |-> "currentPageNumber", deck |-> curDeck, page |-> n]

DeckWrite(d) == [field |-> "currentDeck", deck |-> d, page |-> 0]
PageWrite(n) == [field |-> "currentPageNumber", deck |-> NoDeck, page |-> n]

\* the store's merge of a partial record into the presenter/state record
Merge(rec, w) ==
    IF w.field = "currentDeck"
    THEN [rec EXCEPT !.currentDeck = w.deck]
    ELSE [rec EXCEPT !.currentPageNumber = w.page]

\* a snapshot delivered to the subscriber; own tells that the mutation it
\* reports is an updateDoc of this mediator
Snapshot(rec, own) ==
    [currentDeck |-> rec.currentDeck, currentPageNumber |-> rec.currentPageNumber,
     own |-> own]

\* the resolved loads whose "pagesinit" has not fired yet
RECURSIVE PendingInits(_)
PendingInits(ds) ==
    IF ds = {} THEN 0
    ELSE LET d == CHOOSE x \in ds : TRUE IN inits[d] + PendingInits(ds \ {d})

Pending == Len(writes) + Len(notifs) + Len(loads) + PendingInits(Decks)

RemoveAt(s, i) == SubSeq(s, 1, i - 1) \o SubSeq(s, i + 1, Len(s))

----------------------------------------------------------------------------
(* Initial state: nothing loaded, the subscription delivers the record     *)

Init ==
    /\ curDeck = NoDeck
    /\ curPage = Undefined
    /\ pagesCountSpan = 0
    /\ viewerDeck = NoDeck
    /\ pagesCount = 0
    /\ viewerPage = Undefined
    /\ user \in BOOLEAN
    /\ remote \in [currentDeck : Decks, currentPageNumber : RemotePages]
    /\ writes = <<>>
    /\ notifs = <<Snapshot(remote, FALSE)>>
    /\ loads = <<>>
    /\ paged = <<>>
    /\ inits = [d \in Decks |-> 0]
    /\ eff = NoEffect
    /\ cv = 0 /\ cmin = 0 /\ cmax = 0 /\ cres = Undefined

----------------------------------------------------------------------------
(* Accessors of AdminApp *)

\* set currentPageNumber(pageNumber)
SetCurrentPageNumber(pageNumber) ==
    /\ curPage' = pageNumber
    /\ viewerPage' = pageNumber

\* set currentDeck(deckName)
SetCurrentDeck(deckName) ==
    curDeck' = deckName

----------------------------------------------------------------------------
(* _onSnapshot *)

\* const remotePage = parseInt(data.currentPageNumber)
SnapshotPage(data) == ParseInt(NumberToString(data.currentPageNumber))

\* _onSnapshot writing the page it applied back to the record
OnSnapshotWritingBack ==
    /\ notifs # <<>>
    /\ LET data == Head(notifs)
           remoteDeck == data.currentDeck
           remotePage == SnapshotPage(data)
           loading == curDeck # remoteDeck
           paging == JsNeq(curPage, remotePage)
           writing == paging /\ user /\ IsInteger(remotePage)
       IN /\ notifs' = Tail(notifs)
          /\ loads' = IF loading THEN Append(loads, remoteDeck) ELSE loads
          /\ paged' = IF loading THEN Append(paged, FALSE) ELSE paged
          /\ IF paging
             THEN SetCurrentPageNumber(remotePage)
             ELSE UNCHANGED <<curPage, viewerPage>>
          /\ writes' = IF writing THEN Append(writes, PageWrite(remotePage.n)) ELSE writes
          /\ eff' = Effect("snapshot", <<>>, 0, IF writing THEN 1 ELSE 0,
                           IF paging THEN 1 ELSE 0, IF loading THEN 1 ELSE 0)
    /\ UNCHANGED <<curDeck, pagesCountSpan, viewerDeck, pagesCount, inits>>
    /\ UNCHANGED envVars
    /\ UNCHANGED clampVars

\* _onSnapshot assigning the page without comparing it to the local one
OnSnapshotAlwaysSetting ==
    /\ notifs # <<>>
    /\ LET data == Head(notifs)
           remoteDeck == data.currentDeck
           remotePage == SnapshotPage(data)
           loading == curDeck # remoteDeck
       IN /\ notifs' = Tail(notifs)
          /\ loads' = IF loading THEN Append(loads, remoteDeck) ELSE loads
          /\ paged' = IF loading THEN Append(paged, FALSE) ELSE paged
          /\ SetCurrentPageNumber(remotePage)
          /\ eff' = Effect("snapshot", <<>>, 0, 0, 1, IF loading THEN 1 ELSE 0)
    /\ UNCHANGED <<curDeck, pagesCountSpan, viewerDeck, pagesCount, writes, inits>>
    /\ UNCHANGED envVars
    /\ UNCHANGED clampVars

\* _onSnapshot abandoning the loads in flight when it starts a new one
OnSnapshotCancelling ==
    /\ notifs # <<>>
    /\ LET data == Head(notifs)
           remoteDeck == data.currentDeck
           remotePage == SnapshotPage(data)
           loading == curDeck # remoteDeck
           paging == JsNeq(curPage, remotePage)
       IN /\ notifs' = Tail(notifs)
          /\ loads' = IF loading THEN <<remoteDeck>> ELSE loads
          /\ paged' = IF loading THEN <<FALSE>> ELSE paged
          /\ IF paging
             THEN SetCurrentPageNumber(remotePage)
             ELSE UNCHANGED <<curPage, viewerPage>>
          /\ eff' = Effect("snapshot", <<>>, 0, 0,
                           IF paging THEN 1 ELSE 0, IF loading THEN 1 ELSE 0)
    /\ UNCHANGED <<curDeck, pagesCountSpan, viewerDeck, pagesCount, writes, inits>>
    /\ UNCHANGED envVars
    /\ UNCHANGED clampVars

\* _onSnapshot(doc), doc the oldest undelivered snapshot
OnSnapshot ==
    /\ notifs # <<>>
    /\ LET data == Head(notifs)
           remoteDeck == data.currentDeck
           remotePage == SnapshotPage(data)
           loading == curDeck # remoteDeck
           paging == JsNeq(curPage, remotePage)
       IN /\ notifs' = Tail(notifs)
          /\ loads' = IF loading THEN Append(loads, remoteDeck) ELSE loads
          /\ paged' = IF loading THEN Append(paged, FALSE) ELSE paged
          /\ IF paging
             THEN SetCurrentPageNumber(remotePage)
             ELSE UNCHANGED <<curPage, viewerPage>>
          /\ eff' = Effect("snapshot", <<>>, 0, 0,
                           IF paging THEN 1 ELSE 0, IF loading THEN 1 ELSE 0)
    /\ UNCHANGED <<curDeck, pagesCountSpan, viewerDeck, pagesCount, writes, inits>>
    /\ UNCHANGED envVars
    /\ UNCHANGED clampVars

\* the viewer has built the pages of deckName: it reports their number
ViewerShows(deckName) ==
    /\ viewerDeck' = deckName
    /\ pagesCount' = PagesOf(deckName)

\* the viewer has been given the document of deckName, its pages not built yet
ViewerOpens(deckName) ==
    /\ viewerDeck' = deckName
    /\ pagesCount' = 0

\* the "pagesinit" listener of the constructor
OnPagesInit ==
    pagesCountSpan' = pagesCount'

\* "pagesinit" fires for a load whose promise is still pending
PagesInit(i) ==
    /\ i \in 1..Len(loads)
    /\ ~paged[i]
    /\ ViewerShows(loads[i])
    /\ OnPagesInit
    /\ paged' = [paged EXCEPT ![i] = TRUE]
    /\ eff' = NoEffect
    /\ UNCHANGED <<curDeck, curPage, viewerPage, writes, notifs, loads, inits>>
    /\ UNCHANGED envVars
    /\ UNCHANGED clampVars

\* "pagesinit" fires for a load of deckName whose promise has resolved
PagesInitResolved(deckName) ==
    /\ inits[deckName] > 0
    /\ ViewerShows(deckName)
    /\ OnPagesInit
    /\ inits' = [inits EXCEPT ![deckName] = @ - 1]
    /\ eff' = NoEffect
    /\ UNCHANGED <<curDeck, curPage, viewerPage, writes, notifs, loads, paged>>
    /\ UNCHANGED envVars
    /\ UNCHANGED clampVars

\* the promise of _updateDeck(remoteDeck) resolves, after its "pagesinit" or
\* before it: the continuation registered by _onSnapshot runs
LoadResolved(i) ==
    /\ i \in 1..Len(loads)
    /\ LET remoteDeck == loads[i]
       IN /\ IF paged[i]
             THEN UNCHANGED <<viewerDeck, pagesCount, inits>>
             ELSE /\ ViewerOpens(remoteDeck)
                  /\ inits' = [inits EXCEPT ![remoteDeck] = @ + 1]
          /\ SetCurrentDeck(remoteDeck)
          /\ pagesCountSpan' = pagesCount'
    /\ loads' = RemoveAt(loads, i)
    /\ paged' = RemoveAt(paged, i)
    /\ eff' = Effect("loadResolved", <<>>, 0, 0, 0, 0)
    /\ UNCHANGED <<curPage, viewerPage, writes, notifs>>
    /\ UNCHANGED envVars
    /\ UNCHANGED clampVars

\* the promise of _updateDeck(remoteDeck) rejects: the error is logged
LoadRejected(i) ==
    /\ i \in 1..Len(loads)
    /\ loads' = RemoveAt(loads, i)
    /\ paged' = RemoveAt(paged, i)
    /\ eff' = Effect("loadRejected", <<>>, 0, 0, 0, 0)
    /\ UNCHANGED <<curDeck, curPage, pagesCountSpan, viewerDeck, pagesCount, viewerPage,
                   writes, notifs, inits>>
    /\ UNCHANGED envVars
    /\ UNCHANGED clampVars

----------------------------------------------------------------------------
(* Handlers of the local inputs *)

\* the write issued without looking at the session
IssuesWriteUngated(changing) == changing

\* if (this.auth.currentUser != null), reached once the local value has changed
IssuesWrite(changing) == changing /\ user

\* _onDeckNameInputChange(event), deckName the selected option
OnDeckNameInputChange(deckName) ==
    /\ LET changing == deckName # NoDeck /\ deckName # curDeck
           writing == IssuesWrite(changing)
       IN /\ writing => Pending < MaxPending
          /\ IF changing THEN SetCurrentDeck(deckName) ELSE UNCHANGED curDeck
          /\ writes' = IF writing THEN Append(writes, DeckWrite(deckName)) ELSE writes
          /\ eff' = Effect("deckInput", <<>>, 0, IF writing THEN 1 ELSE 0, 0, 0)
    /\ UNCHANGED <<curPage, pagesCountSpan, viewerDeck, pagesCount, viewerPage,
                   notifs, loads, paged, inits>>
    /\ UNCHANGED envVars
    /\ UNCHANGED clampVars

\* the body both page handlers share once pageNumber is computed
ApplyLocalPage(pageNumber, op, raw, delta) ==
    LET changing == IsInteger(pageNumber) /\ JsNeq(pageNumber, curPage)
        writing == IssuesWrite(changing)
    IN /\ writing => Pending < MaxPending
       /\ IF changing
          THEN SetCurrentPageNumber(pageNumber)
          ELSE UNCHANGED <<curPage, viewerPage>>
       /\ writes' = IF writing THEN Append(writes, PageWrite(pageNumber.n)) ELSE writes
       /\ eff' = Effect(op, raw, delta, IF writing THEN 1 ELSE 0,
                        IF changing THEN 1 ELSE 0, 0)

\* the typed page clamped like the prev/next target
InputPageClamped(raw) == clamp(ParseInt(raw), Num(1), Num(pagesCount))

\* const pageNumber = parseInt(event.target.value)
InputPage(raw) == ParseInt(raw)

\* _onPageNumberInputChange(event), raw the field's value
OnPageNumberInputChange(raw) ==
    /\ ApplyLocalPage(InputPage(raw), "pageInput", raw, 0)
    /\ UNCHANGED <<curDeck, pagesCountSpan, viewerDeck, pagesCount, notifs, loads,
                   paged, inits>>
    /\ UNCHANGED envVars
    /\ UNCHANGED clampVars

\* the target page without the clamp
ButtonPageUnclamped(delta) == JsAdd(curPage, delta)

\* const pageNumber = clamp(this.currentPageNumber + delta, 1, this.viewer.pagesCount)
ButtonPage(delta) == clamp(JsAdd(curPage, delta), Num(1), Num(pagesCount))

\* _onPageChangeButton(delta, event), from a click or from an arrow key
OnPageChangeButton(delta, trigger) ==
    /\ trigger \in Triggers
    /\ ApplyLocalPage(ButtonPage(delta), "pageButton", <<>>, delta)
    /\ UNCHANGED <<curDeck, pagesCountSpan, viewerDeck, pagesCount, notifs, loads,
                   paged, inits>>
    /\ UNCHANGED envVars
    /\ UNCHANGED clampVars

\* _onAuthStateChanged(user): the provider signs the operator in or out
OnAuthStateChanged(u) ==
    /\ u # user
    /\ user' = u
    /\ eff' = NoEffect
    /\ UNCHANGED <<curDeck, curPage, pagesCountSpan, viewerDeck, pagesCount, viewerPage,
                   remote, writes, notifs, loads, paged, inits>>
    /\ UNCHANGED clampVars

----------------------------------------------------------------------------
(* The document store *)

\* the store applies the oldest updateDoc and notifies the subscribers
WriteApplied ==
    /\ writes # <<>>
    /\ remote' = Merge(remote, Head(writes))
    /\ writes' = Tail(writes)
    /\ notifs' = Append(notifs, Snapshot(remote', TRUE))
    /\ eff' = NoEffect
    /\ UNCHANGED <<curDeck, curPage, pagesCountSpan, viewerDeck, pagesCount, viewerPage,
                   user, loads, paged, inits>>
    /\ UNCHANGED clampVars

\* the failed updateDoc issued again from the catch handler
WriteRejectedRetrying ==
    /\ writes # <<>>
    /\ writes' = Append(Tail(writes), Head(writes))
    /\ eff' = Effect("writeRejected", <<>>, 0, 1, 0, 0)
    /\ UNCHANGED <<curDeck, curPage, pagesCountSpan, viewerDeck, pagesCount, viewerPage,
                   user, remote, notifs, loads, paged, inits>>
    /\ UNCHANGED clampVars

\* the oldest updateDoc fails: the error is logged
WriteRejected ==
    /\ writes # <<>>
    /\ writes' = Tail(writes)
    /\ eff' = Effect("writeRejected", <<>>, 0, 0, 0, 0)
    /\ UNCHANGED <<curDeck, curPage, pagesCountSpan, viewerDeck, pagesCount, viewerPage,
                   user, remote, notifs, loads, paged, inits>>
    /\ UNCHANGED clampVars

\* another client changes the record
RemoteMutation(d, n) ==
    /\ Pending < MaxPending
    /\ remote' = [currentDeck |-> d, currentPageNumber |-> n]
    /\ remote' # remote
    /\ notifs' = Append(notifs, Snapshot(remote', FALSE))
    /\ eff' = NoEffect
    /\ UNCHANGED <<curDeck, curPage, pagesCountSpan, viewerDeck, pagesCount, viewerPage,
                   user, writes, loads, paged, inits>>
    /\ UNCHANGED clampVars

Next ==
    \/ OnSnapshot
    \/ \E i \in 1..MaxPending + 1 : PagesInit(i)
    \/ \E d \in Decks : PagesInitResolved(d)
    \/ \E i \in 1..MaxPending + 1 : LoadResolved(i)
    \/ \E i \in 1..MaxPending + 1 : LoadRejected(i)
    \/ \E d \in Decks : OnDeckNameInputChange(d)
    \/ \E raw \in RawInputs : OnPageNumberInputChange(raw)
    \/ \E delta \in Deltas, trigger \in Triggers : OnPageChangeButton(delta, trigger)
    \/ \E u \in BOOLEAN : OnAuthStateChanged(u)
    \/ WriteApplied
    \/ WriteRejected
    \/ \E d \in Decks, n \in RemotePages : RemoteMutation(d, n)

Spec == Init /\ [][Next]_vars

----------------------------------------------------------------------------
(* An authenticated session in which no write and no deck load fails *)

InitSignedIn == Init /\ user = TRUE

NextSignedIn ==
    \/ OnSnapshot
    \/ \E i \in 1..MaxPending + 1 : PagesInit(i)
    \/ \E d \in Decks : PagesInitResolved(d)
    \/ \E i \in 1..MaxPending + 1 : LoadResolved(i)
    \/ \E d \in Decks : OnDeckNameInputChange(d)
    \/ \E raw \in RawInputs : OnPageNumberInputChange(raw)
    \/ \E delta \in Deltas, trigger \in Triggers : OnPageChangeButton(delta, trigger)
    \/ WriteApplied
    \/ \E d \in Decks, n \in RemotePages : RemoteMutation(d, n)

SpecSignedIn == InitSignedIn /\ [][NextSignedIn]_vars

----------------------------------------------------------------------------
(* clamp called directly on integers *)

InitClamp ==
    /\ curDeck = NoDeck
    /\ curPage = Undefined
    /\ pagesCountSpan = 0
    /\ viewerDeck = NoDeck
    /\ pagesCount = 0
    /\ viewerPage = Undefined
    /\ user = FALSE
    /\ remote = [currentDeck |-> "A", currentPageNumber |-> 1]
    /\ writes = <<>>
    /\ notifs = <<>>
    /\ loads = <<>>
    /\ paged = <<>>
    /\ inits = [d \in Decks |-> 0]
    /\ eff = NoEffect
    /\ cv \in (0 - 1)..(ClampRange + 1)
    /\ cmin \in 0..ClampRange
    /\ cmax \in 0..ClampRange
    /\ cres = Undefined

CallClamp ==
    /\ cres = Undefined
    /\ cres' = clamp(Num(cv), Num(cmin), Num(cmax))
    /\ UNCHANGED <<cv, cmin, cmax>>
    /\ UNCHANGED appVars

NextClamp == CallClamp

SpecClamp == InitClamp /\ [][NextClamp]_vars

----------------------------------------------------------------------------
(* Properties *)

LocalOps == {"deckInput", "pageInput", "pageButton"}

RemoteOps == {"snapshot", "loadResolved", "loadRejected"}

Quiescent == writes = <<>> /\ notifs = <<>> /\ loads = <<>> /\ PendingInits(Decks) = 0

\* C1: handling a remote notification, and the completion of a deck load it
\* started, never issues a remote write; every write is issued by the handler
\* of a local input.
C1_LoopbackAvoidance ==
    [][ /\ eff'.op \in RemoteOps => eff'.wrote = 0 /\ writes' = writes
        /\ Len(writes') > Len(writes) => eff'.op \in LocalOps ]_vars

\* a notification changed the local page of a signed-in session, nothing written
C1_Witness ==
    /\ eff.op = "snapshot"
    /\ eff.setPage = 1
    /\ user
    /\ writes = <<>>

\* C2: a local input that changes the local deck or page issues a remote write
\* if and only if the session is authenticated when the handler runs; an
\* unauthenticated session issues no write at all.
C2_WriteGating ==
    [][ eff'.op \in LocalOps =>
          /\ (curDeck' # curDeck \/ curPage' # curPage) =>
                /\ (eff'.wrote = 1) <=> user
                /\ (writes' # writes) <=> user
          /\ ~user => eff'.wrote = 0 /\ writes' = writes ]_vars

\* a signed-out operator changed the page and nothing was written
C2_Witness ==
    /\ eff.op = "pageButton"
    /\ eff.setPage = 1
    /\ eff.wrote = 0
    /\ ~user
    /\ writes = <<>>

\* C3 as stated: once the viewer shows a deck, the local page number is an
\* integer within [1, pagesCount] of that deck.
C3_PageAlwaysInRange ==
    viewerDeck # NoDeck => IsInteger(curPage) /\ curPage.n \in 1..pagesCount

\* C3 amended: right after a prev/next activation that changed the page while
\* the viewer reports at least one page, the local page number is an integer
\* within [1, pagesCount].
C3_ButtonPageInRange ==
    eff.op = "pageButton" /\ eff.setPage = 1 /\ pagesCount >= 1 =>
        IsInteger(curPage) /\ curPage.n \in 1..pagesCount

\* next moved a two-page deck from page 1 to page 2
C3_Witness ==
    /\ eff.op = "pageButton"
    /\ eff.delta = 1
    /\ eff.setPage = 1
    /\ pagesCount = 2
    /\ curPage = Num(2)

\* C4: in a signed-in session without failures, once no write, notification
\* or deck load is pending, the local deck and page equal the remote record's.
C4_Convergence ==
    Quiescent =>
        /\ curDeck = remote.currentDeck
        /\ curPage = Num(remote.currentPageNumber)

\* C5: a notification whose deck equals the local deck changes only the local
\* page number, to the notified value, starts no load, issues no write, and
\* calls the viewer's page setter once if the page differs and not at all if
\* it is equal.
C5_SameDeckNotification ==
    [][ eff'.op = "snapshot" /\ Head(notifs).currentDeck = curDeck =>
          /\ curPage' = Num(Head(notifs).currentPageNumber)
          /\ viewerPage' = curPage'
          /\ eff'.setPage = (IF curPage # Num(Head(notifs).currentPageNumber) THEN 1 ELSE 0)
          /\ eff'.load = 0 /\ loads' = loads
          /\ eff'.wrote = 0 /\ writes' = writes
          /\ UNCHANGED <<curDeck, pagesCountSpan, viewerDeck, pagesCount>> ]_vars

\* a notification for the local deck changed the page with one setter call
C5_Witness ==
    /\ eff.op = "snapshot"
    /\ eff.load = 0
    /\ eff.setPage = 1
    /\ curDeck \in Decks
    /\ loads = <<>>

\* C6: a notification naming another deck starts a load of that deck and leaves
\* the local deck and the page-count display alone; the display changes only
\* when a load resolves, and the local deck and the display then become the
\* loaded deck and its page count; a rejection changes neither.
C6_DeckSwitchOnLoad ==
    [][ /\ eff'.op = "snapshot" /\ Head(notifs).currentDeck # curDeck =>
              /\ eff'.load = 1
              /\ loads' = Append(loads, Head(notifs).currentDeck)
              /\ UNCHANGED <<curDeck, pagesCountSpan>>
        /\ pagesCountSpan' # pagesCountSpan => eff'.op = "loadResolved"
        /\ eff'.op = "loadResolved" =>
              \E i \in 1..Len(loads) :
                  /\ loads' = RemoveAt(loads, i)
                  /\ curDeck' = loads[i]
                  /\ pagesCountSpan' = PagesOf(loads[i])
        /\ eff'.op = "loadRejected" => UNCHANGED <<curDeck, pagesCountSpan>> ]_vars

\* C7: when unauthenticated, a local change issues no write, a deck-selector
\* change to another deck sets the local deck and makes the viewer load it,
\* and a page change sets the local page and the viewer's page.
C7_UnauthenticatedChange ==
    [][ ~user /\ eff'.op \in LocalOps =>
          /\ writes' = writes
          /\ eff'.op = "deckInput" /\ curDeck' # curDeck =>
                \/ loads' = Append(loads, curDeck')
                \/ viewerDeck' = curDeck'
          /\ curPage' # curPage => viewerPage' = curPage' ]_vars

\* C8: next at page = pagesCount, or prev at page 1, leaves the page unchanged,
\* calls no page setter and issues no write.
C8_ClampBoundary ==
    [][ ( /\ eff'.op = "pageButton"
          /\ \/ eff'.delta = 1 /\ curPage = Num(pagesCount)
             \/ eff'.delta = 0 - 1 /\ curPage = Num(1) )
        => ( /\ curPage' = curPage
             /\ eff'.setPage = 0
             /\ writes' = writes ) ]_vars

\* the raw string is an integer literal: an optional sign and digits only
IsIntegerLiteral(raw) ==
    LET body == IF raw # <<>> /\ Head(raw) \in {43, 45} THEN Tail(raw) ELSE raw
    IN body # <<>> /\ \A i \in 1..Len(body) : body[i] \in Digits

\* C9: a page-number field change whose raw string is not an integer changes
\* no local page number, calls no page setter and issues no write.
C9_NonIntegerInput ==
    [][ eff'.op = "pageInput" /\ ~IsIntegerLiteral(eff'.raw) =>
          /\ curPage' = curPage
          /\ eff'.setPage = 0
          /\ writes' = writes ]_vars

\* C10 as stated: for all integers, clamp returns v when min <= v <= max, min
\* when v < min and max when v > max.
C10_ClampAllIntegers ==
    cres # Undefined =>
        /\ cmin <= cv /\ cv <= cmax => cres = Num(cv)
        /\ cv < cmin => cres = Num(cmin)
        /\ cv > cmax => cres = Num(cmax)

\* C10 amended: when min <= max, clamp returns v when min <= v <= max, min when
\* v < min and max when v > max; when min > max it returns max for every v.
C10_ClampOrdered ==
    cres # Undefined =>
        IF cmin <= cmax
        THEN /\ cmin <= cv /\ cv <= cmax => cres = Num(cv)
             /\ cv < cmin => cres = Num(cmin)
             /\ cv > cmax => cres = Num(cmax)
        ELSE cres = Num(cmax)

\* clamp was called with min <= max on a value below min
C10_Witness ==
    /\ cres # Undefined
    /\ cmin <= cmax
    /\ cv < cmin
    /\ cres = Num(cmin)

\* C11: when the deck load started by a notification fails, the local deck,
\* the local page number and the page-count display are what they were before
\* the notification was handled, and the failure starts no load and no write.
\* A rejection can follow the notification at once, so both the notification
\* that starts the load and the rejection have to leave the three values alone.
C11_FailedLoadLeavesState ==
    [][ /\ eff'.op = "snapshot" /\ eff'.load = 1 =>
              UNCHANGED <<curDeck, curPage, pagesCountSpan>>
        /\ eff'.op = "loadRejected" =>
              /\ UNCHANGED <<curDeck, curPage, pagesCountSpan, writes>>
              /\ Len(loads') < Len(loads) ]_vars

\* C12: a failed remote write leaves the local deck and page as the change set
\* them, is not issued again, triggers no other write and no load, and the
\* mediator goes on handling inputs.
C12_WriteFailureTerminal ==
    /\ [][ eff'.op = "writeRejected" =>
             /\ writes' = Tail(writes)
             /\ eff'.wrote = 0
             /\ UNCHANGED <<curDeck, curPage, viewerPage, pagesCountSpan,
                            viewerDeck, pagesCount, loads, notifs, remote>> ]_vars
    /\ [](eff.op = "writeRejected" =>
            ENABLED (\E d \in Decks : OnDeckNameInputChange(d)))

\* the write of a page change failed: the local page stays ahead of the record
C12_Witness ==
    /\ eff.op = "writeRejected"
    /\ writes = <<>>
    /\ notifs = <<>>
    /\ IsInteger(curPage)
    /\ curPage.n # remote.currentPageNumber

\* C13: a notification whose deck differs from the local deck, so that a deck
\* load is started, changes neither the local page number nor the viewer's page.
C13_PageWaitsForDeck ==
    [][ eff'.op = "snapshot" /\ Head(notifs).currentDeck # curDeck =>
          /\ UNCHANGED <<curPage, viewerPage>>
          /\ eff'.setPage = 0 ]_vars

\* C14: the viewer's page setter is called only when a deck has been loaded
\* and no deck load is in flight.
C14_SetPageOnlyWhenLoaded ==
    eff.setPage = 1 => viewerDeck # NoDeck /\ loads = <<>>

\* C15: a notification that reports a write of this mediator changes neither
\* the local deck nor the local page, starts no load, calls no page setter and
\* issues no write, whatever local inputs came before its delivery.
C15_EchoAlwaysAbsorbed ==
    [][ eff'.op = "snapshot" /\ Head(notifs).own =>
          /\ UNCHANGED <<curDeck, curPage, viewerPage, loads, writes>>
          /\ eff'.load = 0 /\ eff'.setPage = 0 /\ eff'.wrote = 0 ]_vars

\* C16: every write of currentPageNumber carries an integer >= 1, and so does
\* the record.
C16_WrittenPageAtLeastOne ==
    /\ \A i \in 1..Len(writes) :
          writes[i].field = "currentPageNumber" => writes[i].page >= 1
    /\ remote.currentPageNumber >= 1

\* C17: a page-number field change that parses to an integer n other than the
\* local page stores exactly n and, when authenticated, writes exactly n;
\* prev/next on an integer page p with pagesCount >= 1 stores
\* min(max(p + delta, 1), pagesCount).
C17_AsymmetricClamping ==
    [][ /\ eff'.op = "pageInput" =>
              LET n == ParseInt(eff'.raw)
              IN IsInteger(n) /\ n # curPage =>
                    /\ curPage' = n
                    /\ viewerPage' = n
                    /\ user => writes' = Append(writes,
                                  [field |-> "currentPageNumber", deck |-> NoDeck,
                                   page |-> n.n])
                    /\ ~user => writes' = writes
        /\ eff'.op = "pageButton" /\ IsInteger(curPage) /\ pagesCount >= 1 =>
              LET t == curPage.n + eff'.delta
                  lo == IF t >= 1 THEN t ELSE 1
              IN curPage' = Num(IF lo <= pagesCount THEN lo ELSE pagesCount) ]_vars

\* page 2 typed while the viewer shows a one-page deck
C17_Witness ==
    /\ eff.op = "pageInput"
    /\ eff.setPage = 1
    /\ pagesCount = 1
    /\ curPage = Num(2)

\* C18: a notification never removes a load in flight; loads leave only by
\* resolving or rejecting, and a load that resolves sets the local deck to its
\* own deck whatever the later notifications named.
C18_NoCancellation ==
    [][ /\ eff'.op = "snapshot" =>
              /\ Len(loads') >= Len(loads)
              /\ SubSeq(loads', 1, Len(loads)) = loads
        /\ Len(loads') < Len(loads) => eff'.op \in {"loadResolved", "loadRejected"}
        /\ eff'.op = "loadResolved" =>
              \E i \in 1..Len(loads) :
                  /\ loads' = RemoveAt(loads, i)
                  /\ curDeck' = loads[i] ]_vars

\* a notification started a load of one deck while the load of another deck,
\* started by an earlier notification, is still in flight
C18_Witness ==
    /\ eff.op = "snapshot"
    /\ eff.load = 1
    /\ Len(loads) = 2
    /\ loads[1] # loads[2]

\* C19: while a load of a deck is in flight, a further notification naming the
\* same deck starts no other load.
C19_OneLoadPerDeckChange ==
    [][ ( /\ eff'.op = "snapshot"
          /\ \E i \in 1..Len(loads) : loads[i] = Head(notifs).currentDeck )
        => ( eff'.load = 0 /\ loads' = loads ) ]_vars

\* C20: a local input issues at most one write; the write names only the field
\* the input changed, with the value just stored locally; a deck-selector
\* change leaves the page alone and a page change leaves the deck alone.
C20_OneFieldPerInput ==
    [][ eff'.op \in LocalOps =>
          /\ \/ writes' = writes /\ eff'.wrote = 0
             \/ /\ eff'.wrote = 1
                /\ eff'.op = "deckInput"
                /\ writes' = Append(writes, [field |-> "currentDeck",
                                             deck |-> curDeck', page |-> 0])
             \/ /\ eff'.wrote = 1
                /\ eff'.op # "deckInput"
                /\ IsInteger(curPage')
                /\ writes' = Append(writes, [field |-> "currentPageNumber",
                                             deck |-> NoDeck, page |-> curPage'.n])
          /\ eff'.op = "deckInput" => UNCHANGED <<curPage, viewerPage>>
          /\ eff'.op # "deckInput" => UNCHANGED curDeck ]_vars

\* a signed-in operator changed the page of a loaded deck: one page write
C20_Witness ==
    /\ eff.op = "pageButton"
    /\ eff.wrote = 1
    /\ curDeck \in Decks
    /\ writes = <<[field |-> "currentPageNumber", deck |-> NoDeck, page |-> curPage.n]>>

====
